---- MODULE Spec2Model ----
(***************************************************************************)
(* A model of the scattering-rate engine of qwwad: the carrier-carrier     *)
(* program srcc.cpp (form-factor table, polarizability table, table        *)
(* lookup, the nested quadrature) and the carrier-LO-phonon program        *)
(* srelo.cpp (energy gate and final-state blocking).                       *)
(*                                                                         *)
(* Numbers.  The programs compute in IEEE doubles.  The model computes on  *)
(* an integer grid: a quantity is an integer count of a unit, sums and     *)
(* products are exact, and a quotient or a square root is rounded to the   *)
(* grid (\div, ISqrt), as a double rounds to its own grid.  A table index  *)
(* outside the allocated block is a read of whatever the heap holds there: *)
(* the cells around a table are part of the state and hold any value.      *)
(***************************************************************************)
EXTENDS Integers, Sequences, FiniteSets, TLC

VARIABLES
    lk,     \* table lookup: [mem, q, ff, PI, pc]
    ov,     \* the overlap integral A: [sb, tx, q, res, pc]
    pt,     \* PI_table and the loop of PI: [Aijfg, isb, T, S_flag, iq, PIii, calls,
            \*                               q_perp, st, iters, tick, pc]
    cc,     \* the loop over the transitions of main of srcc.cpp
    lo,     \* the phonon kernel of one transition (main of srelo.cpp)
    nm      \* the names of the rate-curve files: [list, itx, filename, written, opened, pc]

vars == <<lk, ov, pt, cc, lo, nm>>

(***************************************************************************)
(* Arithmetic helpers                                                      *)
(***************************************************************************)
Max2(x, y) == IF x >= y THEN x ELSE y

Min2(x, y) == IF x <= y THEN x ELSE y

Abs(x) == IF x >= 0 THEN x ELSE -x

RECURSIVE Pow(_, _)
Pow(b, n) == IF n = 0 THEN 1 ELSE b * Pow(b, n - 1)

RECURSIVE SumSeq(_)
SumSeq(s) == IF s = <<>> THEN 0 ELSE Head(s) + SumSeq(Tail(s))

\* sqrt() of <cmath> on the grid: the largest r with r*r <= x (x >= 0)
RECURSIVE ISqrtFrom(_, _)
ISqrtFrom(x, r) == IF (r + 1) * (r + 1) > x THEN r ELSE ISqrtFrom(x, r + 1)

ISqrt(x) == ISqrtFrom(x, 0)

(***************************************************************************)
(* data11: one table entry, a (the wave vector) and b (the value)          *)
(***************************************************************************)
data11(a, b) == [a |-> a, b |-> b]

\* A wave vector that is not a number (the root of a negative number): it
\* fails every comparison and spoils every sum
NaNq == -1

IsNaNq(x) == x = NaNq

\* x >= y and x > y of two doubles
QGe(x, y) == ~IsNaNq(x) /\ ~IsNaNq(y) /\ x >= y

QGt(x, y) == ~IsNaNq(x) /\ ~IsNaNq(y) /\ x > y

\* The memory a data11* designates: the nq entries of the block (tab), the
\* cell just below it (pre) and the cells just above it (post).  Anything
\* further away is not mapped.
Memory(pre, tab, post) == [pre |-> pre, tab |-> tab, post |-> post]

Mapped(mem, i) == i >= -1 /\ i < Len(mem.tab) + Len(mem.post)

InBlock(mem, i) == i >= 0 /\ i < Len(mem.tab)

\* (Aijfg+i)-> : the entry at index i (0-based, as in the C source)
Cell(mem, i) ==
    IF i = -1 THEN mem.pre
    ELSE IF i < Len(mem.tab) THEN mem.tab[i + 1]
    ELSE mem.post[i + 1 - Len(mem.tab)]

\* while(q_perp>=((Aijfg+iq)->a)) iq++;  the index the scan stops at, or -2
\* when the scan runs off the mapped memory
RECURSIVE ScanFrom(_, _, _)
ScanFrom(mem, q_perp, iq) ==
    IF ~Mapped(mem, iq) THEN -2
    ELSE IF QGe(q_perp, Cell(mem, iq).a) THEN ScanFrom(mem, q_perp, iq + 1)
    ELSE iq

\* The linear interpolation between the entries iq-1 and iq
Interpolate(mem, q_perp, iq) ==
    LET below == Cell(mem, iq - 1)
        above == Cell(mem, iq)
    IN  IF above.a = below.a \/ IsNaNq(above.a) \/ IsNaNq(below.a) \/ IsNaNq(q_perp)
        THEN [kind |-> "nonfinite", val |-> 0, iq |-> iq]
        ELSE [kind |-> "value",
              val  |-> below.b + ((above.b - below.b) * (q_perp - below.a)) \div (above.a - below.a),
              iq   |-> iq]

Fatal == [kind |-> "fatal", val |-> 0, iq |-> 0]

Segv(iq) == [kind |-> "segv", val |-> 0, iq |-> iq]

\* The scan and the interpolation, without the range check in front
LookupUnchecked(mem, q_perp) ==
    LET iq == ScanFrom(mem, q_perp, 0)
    IN  IF iq = -2 THEN Segv(Len(mem.tab) + Len(mem.post))
        ELSE IF ~Mapped(mem, iq - 1) THEN Segv(iq - 1)
        ELSE Interpolate(mem, q_perp, iq)

\* lookup_ff with the range check dropped
lookup_ff_nocheck(Aijfg, q_perp, nq) == LookupUnchecked(Aijfg, q_perp)

lookup_ff(Aijfg, q_perp, nq) ==
    IF QGt(q_perp, Cell(Aijfg, nq - 1).a) THEN Fatal
    ELSE LookupUnchecked(Aijfg, q_perp)

lookup_PI(PIii, q_perp, nq) ==
    IF QGt(q_perp, Cell(PIii, nq - 1).a) THEN Fatal
    ELSE LookupUnchecked(PIii, q_perp)

\* Whether a call read an entry outside the nq entries of the block
ReadsOutside(mem, res) ==
    \/ res.kind = "segv"
    \/ res.kind \in {"value", "nonfinite"} /\ ~(InBlock(mem, res.iq) /\ InBlock(mem, res.iq - 1))

(***************************************************************************)
(* Subband: the data of one state.  z is the spatial grid (uniform step),  *)
(* psi the wave function on it, E the subband minimum, Ef the Fermi        *)
(* energy, pop the population.                                             *)
(***************************************************************************)
Subband(z, psi, E, Ef, pop) == [z |-> z, psi |-> psi, E |-> E, Ef |-> Ef, pop |-> pop]

\* exp(1 q-unit * 1 z-unit): a power of two, so that a quotient by exp(qz)
\* is exact, as it is in binary floating point
ExpBase == 2

\* integral(y, dx) of the numerics library: the strip sum of y with step dx
integral(y, dx) == SumSeq(y) * dx

\* exp(q*(z - z[0])) at every grid point
find_exp_qz(q, z) == [iz \in 1..Len(z) |-> Pow(ExpBase, q * (z[iz] - z[1]))]

\* The accumulators hold quotients by exp(qz).  They are kept over the common
\* denominator exp_qz[nz], the largest exp(qz) of the grid: a value v/exp_qz[iz]
\* is the integer v * (exp_qz[nz] \div exp_qz[iz]).
Denominator(exp_qz) == exp_qz[Len(exp_qz)]

Over(v, exp_qz, iz) == v * (Denominator(exp_qz) \div exp_qz[iz])

\* find_Cif_p: Cif_p[iz] sums psi_if/exp(qz) over the points iz..nz-1
find_Cif_p(psi_if, exp_qz, z) ==
    LET nz == Len(z)
        dz == z[2] - z[1]
        RECURSIVE C(_)
        C(iz) == IF iz = nz THEN Over(psi_if[nz], exp_qz, nz) * dz
                 ELSE C(iz + 1) + Over(psi_if[iz], exp_qz, iz) * dz
    IN  [iz \in 1..nz |-> C(iz)]

\* find_Cif_m summing up to and including the point z' (the double count the
\* source's comment warns of)
find_Cif_m_inclusive(psi_if, exp_qz, z) ==
    LET nz == Len(z)
        dz == z[2] - z[1]
        RECURSIVE C(_)
        C(iz) == IF iz = 1 THEN psi_if[1] * exp_qz[1] * dz
                 ELSE C(iz - 1) + psi_if[iz] * exp_qz[iz] * dz
    IN  [iz \in 1..nz |-> C(iz)]

\* Cif_m[0] = 0;  Cif_m[iz] = Cif_m[iz-1] + psi[iz-1]*exp[iz-1]*dz
find_Cif_m(psi_if, exp_qz, z) ==
    LET nz == Len(z)
        dz == z[2] - z[1]
        RECURSIVE C(_)
        C(iz) == IF iz = 1 THEN 0
                 ELSE C(iz - 1) + psi_if[iz - 1] * exp_qz[iz - 1] * dz
    IN  [iz \in 1..nz |-> C(iz)]

\* Cif_m[iz0]/exp_qz[iz0] + Cif_p[iz0]*exp_qz[iz0], over Denominator(exp_qz)
Iif(iz0, Cif_p, Cif_m, exp_qz) ==
    Over(Cif_m[iz0], exp_qz, iz0) + Cif_p[iz0] * exp_qz[iz0]

\* What A computes, step by step: the matrix element is num/den
A_parts(q_perp, isb, jsb, fsb, gsb) ==
    LET z == isb.z
        nz == Len(z)
        dz == z[2] - z[1]
        psi_if == [iz \in 1..nz |-> isb.psi[iz] * fsb.psi[iz]]
        psi_jg == [iz \in 1..nz |-> jsb.psi[iz] * gsb.psi[iz]]
        expTerm == find_exp_qz(q_perp, z)
        Cjg_plus == find_Cif_p(psi_jg, expTerm, z)
        Cjg_minus == find_Cif_m(psi_jg, expTerm, z)
        Aijfg_integrand == [iz \in 1..nz |-> psi_if[iz] * Iif(iz, Cjg_plus, Cjg_minus, expTerm)]
    IN  [Cjg_plus |-> Cjg_plus, Cjg_minus |-> Cjg_minus,
         num |-> integral(Aijfg_integrand, dz), den |-> Denominator(expTerm)]

\* The overlap integral on the grid of form-factor values: FFUnit counts per 1
FFUnit == 4

A(q_perp, isb, jsb, fsb, gsb) ==
    LET r == A_parts(q_perp, isb, jsb, fsb, gsb)
    IN  (r.num * FFUnit) \div r.den

(***************************************************************************)
(* PI: the polarizability integral, and PI_table                           *)
(*                                                                         *)
(* Units.  Energies (mu, E, Ef, kB*T) count steps of dmu.  The integrand   *)
(* dI counts W/dmu, and the sum `integral' counts W, where W is one grid   *)
(* step of the polarizability: the product dI*dmu of the source is then    *)
(* the same count, while the test dI > integral/100 compares two numbers   *)
(* whose units differ by the numeric value of dmu in joules.               *)
(***************************************************************************)
\* dmu = 1e-3*e joules, e = 1.6e-19: dmuMant / 10^dmuExp
dmuMant == 16

dmuExp == 23

\* m/(pi*hBar*hBar), in W
P0base == 1024

\* Bits of the significand of the numbers: x + y is x when y is below the
\* last place of x
MantDig == 6

fadd(x, y) == IF y * Pow(2, MantDig) <= x THEN x ELSE x + y

RECURSIVE Div10(_, _)
Div10(x, n) == IF n = 0 THEN x ELSE Div10(x \div 10, n - 1)

\* dI > integral/100 with dI in W/dmu and integral in W:
\* dI * 100 * 10^dmuExp > integral * dmuMant
Exceeds(dI, total) == dI > Div10(total * dmuMant, dmuExp + 2)

\* isb.k(E) of Subband: the wave vector at the energy E >= 0, sqrt(2mE)/hBar
\* in units with 2m/hBar^2 = 1
k_of_E(E) == ISqrt(E)

\* 4*kB*T*cosh^2((Ef - mu)/(2*kB*T)), with cosh^2(x) taken as 1 + x^2, the
\* head of its series: (4(kT)^2 + (Ef - mu)^2)/kT.  The integrand is P0 over it.
ThermalWeight(P0, Ef, mu, T) == (P0 * T) \div (4 * T * T + (Ef - mu) * (Ef - mu))

\* P0 with the test of the reduction turned round: reduced where q_perp < 2*ki
P0_at_reversed(q_perp, ki) ==
    IF q_perp < 2 * ki
    THEN P0base - ((P0base * ISqrt(4 * ki * ki - q_perp * q_perp)) \div (2 * ki))
    ELSE P0base

\* P0 = m/(pi hBar^2);  if(q_perp>2*ki) P0 -= m/(pi hBar^2)*sqrt(1-(2ki/q_perp)^2)
P0_at(q_perp, ki) ==
    IF QGt(q_perp, 2 * ki)
    THEN P0base - ((P0base * ISqrt(q_perp * q_perp - 4 * ki * ki)) \div q_perp)
    ELSE P0base

\* The loop variables before the first iteration (dI is not yet set)
PI_start(isb) == [mu |-> isb.E, integral |-> 0, dI |-> 0, ki |-> 0, P0 |-> 0]

\* One pass through the body of the do-while
PI_body(isb, q_perp, T, st) ==
    LET ki == k_of_E(st.mu)
        P0 == P0_at(q_perp, ki)
        dI == ThermalWeight(P0, isb.Ef, st.mu, T)
    IN  [mu |-> fadd(st.mu, 1), integral |-> fadd(st.integral, dI), dI |-> dI,
         ki |-> ki, P0 |-> P0]

\* while(dI>integral/100)
PI_continues(st) == Exceeds(st.dI, st.integral)

\* PI run to its return: the value, or "hang" when a pass leaves mu and
\* integral as they were and the test still holds
RECURSIVE PI_from(_, _, _, _)
PI_from(isb, q_perp, T, st) ==
    LET n == PI_body(isb, q_perp, T, st)
    IN  IF ~PI_continues(n) THEN [kind |-> "value", val |-> n.integral]
        ELSE IF n.mu = st.mu /\ n.integral = st.integral THEN [kind |-> "hang", val |-> 0]
        ELSE PI_from(isb, q_perp, T, n)

PI(isb, q_perp, T) == PI_from(isb, q_perp, T, PI_start(isb))

(***************************************************************************)
(* Doubles that may stop being finite: a quotient by zero is an infinity   *)
(* or, 0/0, a NaN; NaN spreads through every operation and fails every     *)
(* comparison.                                                             *)
(***************************************************************************)
Num(v) == [kind |-> "num", v |-> v]

Inf == [kind |-> "inf", v |-> 0]

NaN == [kind |-> "nan", v |-> 0]

\* x + y
FPlus(x, y) ==
    IF x.kind = "nan" \/ y.kind = "nan" THEN NaN
    ELSE IF x.kind = "inf" \/ y.kind = "inf" THEN Inf
    ELSE Num(x.v + y.v)

\* x * y, for x, y >= 0
FTimes(x, y) ==
    IF x.kind = "nan" \/ y.kind = "nan" THEN NaN
    ELSE IF x.kind = "inf" THEN (IF y.kind = "num" /\ y.v = 0 THEN NaN ELSE Inf)
    ELSE IF y.kind = "inf" THEN (IF x.v = 0 THEN NaN ELSE Inf)
    ELSE Num(x.v * y.v)

\* x * num / den for x >= 0 and integers num >= 0, den > 0
FScale(x, num, den) ==
    IF x.kind = "num" THEN Num((x.v * num) \div den) ELSE FTimes(x, Num(num))

\* x / y for integers x, y on a grid of `unit' counts per 1
FDiv(x, y, unit) ==
    IF y = 0 THEN (IF x = 0 THEN NaN ELSE Inf) ELSE Num((x * unit) \div y)

(***************************************************************************)
(* The carrier-carrier kernel: ff_table, PI_table and the quadrature of    *)
(* main.  Wave vectors are in units with 2m/hBar^2 = 1, so that            *)
(* k = sqrt(E) and Deltak0sqr = 2(Ei + Ej - Ef - Eg).                      *)
(***************************************************************************)
\* cos(alpha) and cos(theta) at the samples of an angle grid whose step is a
\* quarter turn: 2*pi/(n - 1) with n - 1 = 4
QuarterTurnCos == <<1, 0, -1, 0, 1>>

nalpha == Len(QuarterTurnCos)

ntheta == Len(QuarterTurnCos)

nki == 3

nkj == 3

\* Fermi-Dirac occupations count OccUnit per 1
OccUnit == 64

\* The form factor is tabulated at q_perp in the q units of the overlap
\* integral: QUnit wave-vector units each
QUnit == 8

\* 2*pi*e*e/(4*pi*epsilon) is 1/ScreenUnit on the grid
ScreenUnit == 64

\* The quotient ff/(q_perp + ...) counts RateUnit per 1
RateUnit == 16

\* Subband::f_FD(E, T): the occupation of the state of total energy E
f_FD(sb, E, T) ==
    LET x == (E - sb.Ef) \div T
    IN  IF x >= 0 THEN OccUnit \div (1 + Pow(2, Min2(x, 4)))
        ELSE OccUnit - OccUnit \div (1 + Pow(2, Min2(-x, 4)))

\* Subband::Ek(k): the kinetic energy at wave vector k
Ek(k) == k * k

\* Subband::f_FD_k(k, T): the occupation of the state of wave vector k
f_FD_k(sb, k, T) == f_FD(sb, sb.E + Ek(k), T)

\* Deltak0sqr without the test of the indices
Deltak0sqr_of_always(tx, Ei, Ej, Ef, Eg) == 2 * (Ei + Ej - Ef - Eg)

\* Deltak0sqr = 0;  if(i+j != f+g) Deltak0sqr = 4m(Ei+Ej-Ef-Eg)/hBar^2
Deltak0sqr_of(tx, Ei, Ej, Ef, Eg) ==
    IF tx[1] + tx[2] # tx[3] + tx[4]
    THEN 2 * (Ei + Ej - Ef - Eg)
    ELSE 0

\* q_perp_max of ff_table
q_perp_max_of(Deltak0sqr, isb, jsb, vmax) ==
    LET kimax == k_of_E(vmax - isb.E)
        kjmax == k_of_E(vmax - jsb.E)
        K == kimax + kjmax
    IN  IF K * K + Deltak0sqr < 0 THEN NaNq
        ELSE ISqrt(2 * K * K + Deltak0sqr + 2 * K * ISqrt(K * K + Deltak0sqr)) \div 2

\* The nq entries ff_table writes: q_perp = dq*iq with dq = q_perp_max/(nq-1).
\* When q_perp_max is no number neither is any q_perp; an interpolation that
\* touches such an entry yields no number whatever its b is.
ff_table(Deltak0sqr, isb, jsb, fsb, gsb, vmax, nq) ==
    LET q_perp_max == q_perp_max_of(Deltak0sqr, isb, jsb, vmax)
        dq == IF IsNaNq(q_perp_max) THEN NaNq ELSE q_perp_max \div (nq - 1)
    IN  [iq \in 1..nq |->
            LET q_perp == IF IsNaNq(dq) THEN NaNq ELSE dq * (iq - 1)
            IN  IF IsNaNq(q_perp) THEN data11(NaNq, 0)
                ELSE data11(q_perp, A(q_perp \div QUnit, isb, jsb, fsb, gsb))]

\* The entries PI_table writes: the q_perp of Aijfg, and PI or, unscreened, 0
PI_table(Aijfg, isb, T, nq, S_flag) ==
    [iq \in 1..nq |->
        data11(Aijfg[iq].a, IF S_flag THEN PI(isb, Aijfg[iq].a, T).val ELSE 0)]

\* Whether PI_table never returns: one of its calls of PI does not
PI_table_hangs(Aijfg, isb, T, nq, S_flag) ==
    S_flag /\ \E iq \in 1..nq : PI(isb, Aijfg[iq].a, T).kind = "hang"

\* 4*q_perp*q_perp of a sample; NaN when the inner root is of a negative number
q_perpsqr4_of(kij, Deltak0sqr, cosTheta) ==
    IF kij * kij + Deltak0sqr < 0 THEN NaN
    ELSE Num(2 * kij * kij + Deltak0sqr - 2 * kij * ISqrt(kij * kij + Deltak0sqr) * cosTheta)

\* The test with every sample let through
RealQPerp_always(q_perpsqr4) == TRUE

\* if(q_perpsqr4>=0)
RealQPerp(q_perpsqr4) == q_perpsqr4.kind = "num" /\ q_perpsqr4.v >= 0

\* The wave vectors of the sample (iki, ikj, ialpha): ki, kj and kij
SampleK(c) ==
    LET kimax == ISqrt(c.vmax - c.isb.E)
        dki == kimax \div (nki - 1)
        kjmax == ISqrt(c.vmax - c.jsb.E)
        dkj == kjmax \div (nkj - 1)
        ki == dki * c.iki
        kj == dkj * c.ikj
    IN  [ki |-> ki, kj |-> kj, dki |-> dki, dkj |-> dkj,
         kij |-> ISqrt(ki * ki + kj * kj - 2 * ki * kj * QuarterTurnCos[c.ialpha + 1])]

\* The term a sample adds to Wijfg:
\* (ff/(q_perp + 2*pi*e*e*PI*ff/(4*pi*epsilon)))^2 * P * kj
\* q_perp + 2*pi*e*e*PI*ff/(4*pi*epsilon), the divisor of the term
ScreenedQ(ff, PIv, q_perp) == FFUnit * q_perp + (PIv * ff) \div ScreenUnit

SampleTerm(ff, PIv, q_perp, P, kj) ==
    LET ratio == FDiv(ff, ScreenedQ(ff, PIv, q_perp), RateUnit)
    IN  FScale(FTimes(ratio, ratio), P * kj, OccUnit)

\* The loop indices after this sample; the theta loop is the innermost
NextIndices(c) ==
    IF c.itheta + 1 < ntheta THEN [c EXCEPT !.itheta = c.itheta + 1]
    ELSE IF c.ialpha + 1 < nalpha THEN [c EXCEPT !.itheta = 0, !.ialpha = c.ialpha + 1]
    ELSE IF c.ikj + 1 < nkj THEN [c EXCEPT !.itheta = 0, !.ialpha = 0, !.ikj = c.ikj + 1]
    ELSE [c EXCEPT !.itheta = 0, !.ialpha = 0, !.ikj = 0, !.pc = "endki"]

(***************************************************************************)
(* The phonon kernel: main of srelo.cpp for one transition i -> f.         *)
(* Wave vectors are in units with 2m/hBar^2 = 1; the phase Kz*z counts     *)
(* quarter turns, so that exp(i*Kz*z) is exact.                            *)
(***************************************************************************)
nKz == 3

\* dKz = 2/(A0*nKz), one wave-vector unit
dKz == 1

\* Theta of the numerics library: the unit step
Theta(x) == IF x >= 0 THEN 1 ELSE 0

\* Subband::get_k_max(T): the wave vector 5kT above the band edge
get_k_max(T) == ISqrt(5 * T)

\* The sum of a sequence of doubles
RECURSIVE FSum(_)
FSum(y) == IF y = <<>> THEN Num(0) ELSE FPlus(y[1], FSum(Tail(y)))

\* integral(y, dx) of the numerics library on doubles that may be non-finite
Fintegral(y, dx) == FTimes(FSum(y), Num(dx))

\* cos and sin of n quarter turns
CosQ(n) == QuarterTurnCos[(n % 4) + 1]

SinQ(n) == QuarterTurnCos[((n + 3) % 4) + 1]

\* Gsqr: norm of the integral of exp(i*Kz*z)*psi_i*psi_f
Gsqr(Kz, isb, fsb) ==
    LET z == isb.z
        dz == z[2] - z[1]
        re == [iz \in 1..Len(z) |-> CosQ(Kz * z[iz]) * isb.psi[iz] * fsb.psi[iz]]
        im == [iz \in 1..Len(z) |-> SinQ(Kz * z[iz]) * isb.psi[iz] * fsb.psi[iz]]
    IN  integral(re, dz) * integral(re, dz) + integral(im, dz) * integral(im, dz)

\* ff_table of srelo.cpp: Kz[iKz] = iKz*dKz and Gifsqr[iKz] = Gsqr(Kz[iKz])
ff_table_LO(isb, fsb) ==
    [Kz |-> [iKz \in 1..nKz |-> (iKz - 1) * dKz],
     Gifsqr |-> [iKz \in 1..nKz |-> Gsqr((iKz - 1) * dKz, isb, fsb)]]

\* lambda_s_sq: the sum over all subbands of sqrt(2*m*Ej)*m*f_FD(Ej, Te)
lambda_s_sq_of(sb, S_flag, Te) ==
    IF S_flag
    THEN SumSeq([j \in 1..Len(sb) |-> (ISqrt(sb[j].E) * f_FD(sb[j], sb[j].E, Te)) \div OccUnit])
    ELSE 0

\* The cutoff: the user's value, or 5kT; extended when no scattering fits
Ecutoff_of(given, value, isb, fsb, Ephonon, Te) ==
    IF given
    THEN IF value + isb.E - Ephonon < fsb.E THEN value + fsb.E ELSE value
    ELSE LET kimax == get_k_max(Te)
             Ecutoff == kimax * kimax
         IN  IF Ecutoff + isb.E < fsb.E THEN Ecutoff + fsb.E ELSE Ecutoff

\* Kz_2, with the screening factor when wanted and iKz != 0
Kz_2_of(Kz, iKz, S_flag, lambda_s_sq) ==
    LET Kz_2 == Kz[iKz] * Kz[iKz]
    IN  IF S_flag /\ iKz # 1
        THEN Kz_2 + 2 * lambda_s_sq + (lambda_s_sq * lambda_s_sq) \div Kz_2
        ELSE Kz_2

\* Gifsqr/sqrt(Kz_4 + 2*Kz_2*(2*ki*ki - D) + D^2), D = 2*m*Delta/hBar^2
integrand_dKz(Gifsqr, Kz_2, ki, D) ==
    FDiv(Gifsqr, ISqrt(Kz_2 * Kz_2 + 2 * Kz_2 * (2 * ki * ki - D) + D * D), RateUnit)

\* Upsilon*pi*integral(integrand, dKz): the rate before the gate
UngatedRate(c, ki, Delta, Upsilon) ==
    LET y == [iKz \in 1..nKz |->
                integrand_dKz(c.Gifsqr[iKz], Kz_2_of(c.Kz, iKz, c.S_flag, c.lambda_s_sq), ki, Delta)]
    IN  FTimes(Num(Upsilon), Fintegral(y, dKz))

\* W *= Theta(Ef)
Gated(W, Ef_kin) == FTimes(W, Num(Theta(Ef_kin)))

\* The blocking step with the flag ignored
Blocked_always(b_flag, W, Ef_kin, fsb, Te) ==
    IF Ef_kin >= 0 THEN FScale(W, OccUnit - f_FD_k(fsb, ISqrt(Ef_kin), Te), OccUnit) ELSE W

\* if(b_flag) { if(Ef >= 0) W *= (1.0 - fsb.f_FD_k(kf, Te)); }
Blocked(b_flag, W, Ef_kin, fsb, Te) ==
    IF b_flag /\ Ef_kin >= 0
    THEN FScale(W, OccUnit - f_FD_k(fsb, ISqrt(Ef_kin), Te), OccUnit)
    ELSE W

(***************************************************************************)
(* A component a specification does not exercise is parked: its variables  *)
(* hold these values and never change.                                     *)
(***************************************************************************)
NoCall == [kind |-> "none", val |-> 0, iq |-> 0]

ParkedLookup ==
    [mem |-> Memory(data11(0, 0), <<>>, <<>>), q |-> 0, ff |-> NoCall, PI |-> NoCall, pc |-> "off"]

NoOverlap == [Cjg_plus |-> <<>>, Cjg_minus |-> <<>>, num |-> 0, den |-> 1]

ParkedOverlap == [sb |-> <<>>, tx |-> <<>>, q |-> 0, res |-> NoOverlap, pc |-> "off"]

ParkedPI ==
    [Aijfg |-> <<>>, isb |-> Subband(<<>>, <<>>, 0, 0, 1), T |-> 1, S_flag |-> FALSE, iq |-> 0,
     PIii |-> <<>>, calls |-> 0, q_perp |-> 0, st |-> [mu |-> 0, integral |-> 0, dI |-> 0, ki |-> 0, P0 |-> 0],
     iters |-> 0, tick |-> 0, pc |-> "off"]

(***************************************************************************)
(* The name of a rate-curve file: sprintf(filename,"cc%i%i%i%i.r",i,j,f,g) *)
(* into char filename[9]                                                   *)
(***************************************************************************)
\* sizeof filename
BufferSize == 9

DigitChar == <<"0", "1", "2", "3", "4", "5", "6", "7", "8", "9">>

\* %i: the decimal digits of n >= 0, no padding
RECURSIVE Decimal(_)
Decimal(n) == IF n < 10 THEN <<DigitChar[n + 1]>> ELSE Decimal(n \div 10) \o <<DigitChar[(n % 10) + 1]>>

\* The characters sprintf stores in front of the terminator
FileName(tx) ==
    <<"c", "c">> \o Decimal(tx[1]) \o Decimal(tx[2]) \o Decimal(tx[3]) \o Decimal(tx[4])
        \o <<".", "r">>

\* The bytes sprintf stores from filename[0] on: the name and its terminator
BytesWritten(tx) == Len(FileName(tx)) + 1

ParkedNames ==
    [list |-> <<>>, itx |-> 0, filename |-> <<>>, written |-> 0, opened |-> <<>>, pc |-> "off"]

NoTable == Memory(data11(0, 0), <<>>, <<>>)

NoSubband == Subband(<<>>, <<>>, 0, 0, 1)

ParkedCC ==
    [vmax |-> 0, sb |-> <<>>, list |-> <<>>, itx |-> 0, T |-> 1, S_flag |-> FALSE,
     ff_flag |-> FALSE, fault |-> "none", err |-> "none", stderr |-> <<>>, status |-> 0,
     tx |-> <<>>, isb |-> NoSubband, jsb |-> NoSubband, fsb |-> NoSubband, gsb |-> NoSubband,
     Deltak0sqr |-> 0, Aijfg |-> NoTable, PIii |-> NoTable, live |-> {},
     iki |-> 0, ikj |-> 0, ialpha |-> 0, itheta |-> 0, Wijfg |-> Num(0), Wbar |-> Num(0),
     Fcc |-> <<>>, FccState |-> "closed", FccABCD |-> <<>>, ABCDState |-> "closed",
     disk |-> <<>>, Afiles |-> <<>>, lookups |-> 0, nskip |-> 0, pc |-> "off"]

ParkedLO ==
    [sb |-> <<>>, i |-> 1, f |-> 1, Ephonon |-> 0, N0 |-> 0, Te |-> 1, b_flag |-> FALSE,
     S_flag |-> FALSE, given |-> FALSE, value |-> 0, lambda_s_sq |-> 0, Ecutoff |-> 0,
     kimax |-> 0, Kz |-> <<>>, Gifsqr |-> <<>>, iki |-> 0, Waif |-> <<>>, Weif |-> <<>>,
     Wabar_integrand_ki |-> <<>>, Webar_integrand_ki |-> <<>>, Wabar |-> Num(0),
     Webar |-> Num(0), pc |-> "off"]

(***************************************************************************)
(* Tables for the lookup specification                                     *)
(***************************************************************************)
MaxNq == 3          \* entries of a table
MaxQ == 4           \* largest tabulated or queried q
MaxB == 2           \* largest tabulated value
HeapCells == 1      \* mapped cells above a block

QValues == 0..MaxQ
BValues == 0..MaxB

StrictlyIncreasing(tab) == \A i \in 1..(Len(tab) - 1) : tab[i].a < tab[i + 1].a

Entries == {data11(a, b) : a \in QValues, b \in BValues}

\* what a cell outside the block may hold
Garbage == {data11(0, MaxB + 1), data11(MaxQ + 1, MaxB + 1)}

Tables == UNION {{t \in [1..n -> Entries] : StrictlyIncreasing(t)} : n \in 2..MaxNq}

\* lk.mem: the table a pointer designates, with the heap cells around it;
\* lk.q: q_perp of the last call; lk.ff, lk.PI: what lookup_ff and lookup_PI
\* did on that call; lk.pc: "idle" | "called"
InitLookup ==
    /\ \E tab \in Tables, pre \in Garbage, post \in [1..HeapCells -> Garbage] :
           lk = [mem |-> Memory(pre, tab, post), q |-> 0, ff |-> NoCall, PI |-> NoCall,
                 pc |-> "idle"]
    /\ ov = ParkedOverlap
    /\ pt = ParkedPI
    /\ cc = ParkedCC
    /\ lo = ParkedLO
    /\ nm = ParkedNames

\* One call of each lookup on the table, with any query
CallLookup ==
    /\ lk.pc = "idle"
    /\ \E q \in 0..(MaxQ + 1) :
           lk' = [lk EXCEPT !.q = q,
                            !.ff = lookup_ff(lk.mem, q, Len(lk.mem.tab)),
                            !.PI = lookup_PI(lk.mem, q, Len(lk.mem.tab)),
                            !.pc = "called"]
    /\ UNCHANGED <<ov, pt, cc, lo, nm>>

\* The caller goes on to the next sample (the process is gone after a fatal exit)
NextSample ==
    /\ lk.pc = "called"
    /\ lk.ff.kind = "value"
    /\ lk.PI.kind = "value"
    /\ lk' = [lk EXCEPT !.pc = "idle"]
    /\ UNCHANGED <<ov, pt, cc, lo, nm>>

NextLookup == CallLookup \/ NextSample

SpecLookup == InitLookup /\ [][NextLookup]_vars

LastQ(mem) == mem.tab[Len(mem.tab)].a

FirstQ(mem) == mem.tab[1].a

\* C1: a call of lookup_ff or lookup_PI with q_perp above the last tabulated
\* q takes the fatal exit and returns no interpolated value.
C1_OutOfRangeIsFatal ==
    (lk.pc = "called" /\ lk.q > LastQ(lk.mem))
        => (lk.ff.kind = "fatal" /\ lk.PI.kind = "fatal")

C1_Witness ==
    /\ lk.pc = "called"
    /\ lk.q > LastQ(lk.mem)
    /\ lk.ff = Fatal
    /\ lk.PI = Fatal

Between(v, x, y) == Min2(x, y) <= v /\ v <= Max2(x, y)

\* C2: on a strictly increasing table, a lookup at a stored q (the first and
\* the last entry included) returns that entry's value, and a lookup strictly
\* between two adjacent stored points returns a value between their values.
C2_StoredAndBetween ==
    lk.pc = "called" =>
        \A k \in 1..Len(lk.mem.tab) :
            /\ lk.q = lk.mem.tab[k].a =>
                   (lk.ff.kind = "value" /\ lk.ff.val = lk.mem.tab[k].b)
            /\ (k < Len(lk.mem.tab) /\ lk.mem.tab[k].a < lk.q /\ lk.q < lk.mem.tab[k + 1].a) =>
                   (lk.ff.kind = "value"
                    /\ Between(lk.ff.val, lk.mem.tab[k].b, lk.mem.tab[k + 1].b))

\* The part of C2 the code does deliver: every stored q but the last one
C2_StoredButLast ==
    lk.pc = "called" =>
        \A k \in 1..(Len(lk.mem.tab) - 1) :
            /\ lk.q = lk.mem.tab[k].a =>
                   (lk.ff.kind = "value" /\ lk.ff.val = lk.mem.tab[k].b)
            /\ (lk.mem.tab[k].a < lk.q /\ lk.q < lk.mem.tab[k + 1].a) =>
                   (lk.ff.kind = "value"
                    /\ Between(lk.ff.val, lk.mem.tab[k].b, lk.mem.tab[k + 1].b))

\* C20: for every q_perp from 0 up to the last tabulated q, that q included,
\* the forward scan of both lookups stops at an index in 1..nq-1, so the
\* interpolation reads entries 0..nq-1 of the table only.  The tables are
\* those the program builds, whose first q is 0.
C20_ScanStaysInTable ==
    (lk.pc = "called" /\ FirstQ(lk.mem) = 0 /\ 0 <= lk.q /\ lk.q <= LastQ(lk.mem)) =>
        /\ lk.ff.kind # "fatal" /\ lk.PI.kind # "fatal"
        /\ lk.ff.iq \in 1..(Len(lk.mem.tab) - 1)
        /\ lk.PI.iq \in 1..(Len(lk.mem.tab) - 1)
        /\ ~ReadsOutside(lk.mem, lk.ff)
        /\ ~ReadsOutside(lk.mem, lk.PI)

\* What the scan does deliver: below the last tabulated q it stays in the table
C20_BelowLastStaysInTable ==
    (lk.pc = "called" /\ FirstQ(lk.mem) = 0 /\ 0 <= lk.q /\ lk.q < LastQ(lk.mem)) =>
        /\ lk.ff.iq \in 1..(Len(lk.mem.tab) - 1)
        /\ ~ReadsOutside(lk.mem, lk.ff)

(***************************************************************************)
(* The overlap specification: A on any four wave functions                 *)
(***************************************************************************)
MaxNz == 3          \* points of the spatial grid
MaxQExp == 2        \* largest q_perp, in units of 1/dz

PsiValues == {0, 1}

Grids(nz) == {[iz \in 1..nz |-> z0 + (iz - 1)] : z0 \in {0, 1}}

Wavefunctions(nz) == [1..nz -> PsiValues]

SubbandIds == {1, 2}

Transitions == [1..4 -> SubbandIds]

\* The four subbands of a transition: subbands[i-1] ... in the source
Isb(sb, tx) == [i |-> sb[tx[1]], j |-> sb[tx[2]], f |-> sb[tx[3]], g |-> sb[tx[4]]]

\* ov.sb: subbands, the states read from file; ov.tx: the transition
\* <<i, j, f, g>>, indices from 1; ov.q: q_perp of the call; ov.res: what A
\* computed; ov.pc: "idle" | "done"
InitOverlap ==
    /\ \E nz \in 2..MaxNz :
         \E z \in Grids(nz), psi \in [SubbandIds -> Wavefunctions(nz)], tx \in Transitions :
             ov = [sb |-> [s \in SubbandIds |-> Subband(z, psi[s], 0, 0, 1)], tx |-> tx,
                   q |-> 0, res |-> NoOverlap, pc |-> "idle"]
    /\ lk = ParkedLookup
    /\ pt = ParkedPI
    /\ cc = ParkedCC
    /\ lo = ParkedLO
    /\ nm = ParkedNames

\* One call of A
CallA ==
    /\ ov.pc = "idle"
    /\ \E q \in 0..MaxQExp :
           LET s == Isb(ov.sb, ov.tx)
           IN  ov' = [ov EXCEPT !.q = q, !.res = A_parts(q, s.i, s.j, s.f, s.g), !.pc = "done"]
    /\ UNCHANGED <<lk, pt, cc, lo, nm>>

\* The next entry of the table is computed from the same four states
NextEntry ==
    /\ ov.pc = "done"
    /\ ov' = [ov EXCEPT !.pc = "idle"]
    /\ UNCHANGED <<lk, pt, cc, lo, nm>>

NextOverlap == CallA \/ NextEntry

SpecOverlap == InitOverlap /\ [][NextOverlap]_vars

\* exp(-q|z - z'|) over the common denominator of the grid
ExpMinusAbs(q, z, iz, iz0) ==
    Pow(ExpBase, q * (z[Len(z)] - z[1])) \div Pow(ExpBase, q * Abs(z[iz] - z[iz0]))

\* The double sum over all pairs (z, z'), taken directly
BruteForce(q, sb) ==
    LET z == sb.i.z
        nz == Len(z)
        dz == z[2] - z[1]
        inner(iz0) == [iz \in 1..nz |-> sb.j.psi[iz] * sb.g.psi[iz] * ExpMinusAbs(q, z, iz, iz0) * dz]
    IN  SumSeq([iz0 \in 1..nz |-> sb.i.psi[iz0] * sb.f.psi[iz0] * SumSeq(inner(iz0)) * dz])

\* The weighted product summed over the grid indices from..to (1-based)
RangeSum(w, from, to) == SumSeq([k \in 1..Max2(to - from + 1, 0) |-> w[from + k - 1]])

\* C4: Cif_m[iz] sums the weighted product over the indices 0..iz-1, Cif_p[iz]
\* over iz..nz-1, and the matrix element of A equals the brute-force double sum.
C4_PrefixSuffixMatchesBruteForce ==
    ov.pc = "done" =>
        LET s == Isb(ov.sb, ov.tx)
            z == s.i.z
            nz == Len(z)
            dz == z[2] - z[1]
            e == [iz \in 1..nz |-> Pow(ExpBase, ov.q * (z[iz] - z[1]))]
            up == [iz \in 1..nz |-> s.j.psi[iz] * s.g.psi[iz] * e[iz] * dz]
            down == [iz \in 1..nz |-> s.j.psi[iz] * s.g.psi[iz] * (e[nz] \div e[iz]) * dz]
        IN  /\ \A iz \in 1..nz : ov.res.Cjg_minus[iz] = RangeSum(up, 1, iz - 1)
            /\ \A iz \in 1..nz : ov.res.Cjg_plus[iz] = RangeSum(down, iz, nz)
            /\ ov.res.num = BruteForce(ov.q, s)

C4_Witness ==
    /\ ov.pc = "done"
    /\ ov.q > 0
    /\ Len(ov.sb[1].z) = MaxNz
    /\ ov.res.num > 0
    /\ ov.res.Cjg_minus[MaxNz] > 0
    /\ ov.res.Cjg_plus[1] > ov.res.Cjg_plus[MaxNz]

(***************************************************************************)
(* The polarizability specification: PI_table on the q grid of a           *)
(* form-factor table, PI run one pass of its loop at a time                *)
(***************************************************************************)
MaxDq == 3          \* largest step of the q grid
MaxE == 2           \* subband minima and Fermi energies: 0..MaxE steps of MantDig's range
MaxT == 2           \* temperatures: 1, 16, ..., 16^(MaxT-1)

\* Energies from the band edge up to where mu + dmu is mu
Energies == {(n * Pow(2, MantDig)) \div MaxE : n \in 0..MaxE}

Temperatures == {Pow(16, n) : n \in 0..(MaxT - 1)}

\* The q grid ff_table lays down: q = dq*iq, iq = 0..nq-1
QGrid(dq, nq) == [iq \in 1..nq |-> data11(dq * (iq - 1), 0)]

\* pt.Aijfg: the form-factor table whose q grid is reused; pt.isb, pt.T,
\* pt.S_flag: the arguments; pt.iq: the loop index of PI_table; pt.PIii: the
\* entries written so far; pt.calls: how often PI was entered; pt.q_perp, pt.st,
\* pt.iters: the argument, the loop variables and the passes (0, 1, many) of the
\* running PI; pt.tick: flips with every pass;
\* pt.pc: "table" | "body" | "converged" | "returned"
InitPI ==
    /\ \E dq \in 1..MaxDq, nq \in 2..MaxNq, E \in Energies, Ef \in Energies,
          T \in Temperatures, S_flag \in BOOLEAN :
           pt = [Aijfg |-> QGrid(dq, nq), isb |-> Subband(<<>>, <<>>, E, Ef, 1), T |-> T,
                 S_flag |-> S_flag, iq |-> 0, PIii |-> <<>>, calls |-> 0, q_perp |-> 0,
                 st |-> PI_start(Subband(<<>>, <<>>, E, Ef, 1)), iters |-> 0, tick |-> 0,
                 pc |-> "table"]
    /\ lk = ParkedLookup
    /\ ov = ParkedOverlap
    /\ cc = ParkedCC
    /\ lo = ParkedLO
    /\ nm = ParkedNames

\* for(iq...) with screening: PIii[iq].b = PI(isb, q_perp, T) is entered
EnterPI ==
    /\ pt.pc = "table"
    /\ pt.iq < Len(pt.Aijfg)
    /\ pt.S_flag
    /\ pt' = [pt EXCEPT !.q_perp = pt.Aijfg[pt.iq + 1].a, !.st = PI_start(pt.isb),
                        !.iters = 0, !.calls = pt.calls + 1, !.pc = "body"]
    /\ UNCHANGED <<lk, ov, cc, lo, nm>>

\* PI_table entering PI whatever S_flag says
StoreZero_callsPI ==
    /\ pt.pc = "table"
    /\ pt.iq < Len(pt.Aijfg)
    /\ ~pt.S_flag
    /\ pt' = [pt EXCEPT !.q_perp = pt.Aijfg[pt.iq + 1].a, !.st = PI_start(pt.isb),
                        !.iters = 0, !.calls = pt.calls + 1, !.pc = "body"]
    /\ UNCHANGED <<lk, ov, cc, lo, nm>>

\* for(iq...) without screening: PIii[iq].b = 0
StoreZero ==
    /\ pt.pc = "table"
    /\ pt.iq < Len(pt.Aijfg)
    /\ ~pt.S_flag
    /\ pt' = [pt EXCEPT !.PIii = Append(pt.PIii, data11(pt.Aijfg[pt.iq + 1].a, 0)),
                        !.iq = pt.iq + 1]
    /\ UNCHANGED <<lk, ov, cc, lo, nm>>

\* One pass of the do-while of PI, and its test
PIPass ==
    /\ pt.pc = "body"
    /\ LET n == PI_body(pt.isb, pt.q_perp, pt.T, pt.st)
       IN  pt' = [pt EXCEPT !.st = n, !.iters = Min2(pt.iters + 1, 2), !.tick = 1 - pt.tick,
                            !.pc = IF PI_continues(n) THEN "body" ELSE "converged"]
    /\ UNCHANGED <<lk, ov, cc, lo, nm>>

\* return integral; and the store into PIii[iq]
PIReturn ==
    /\ pt.pc = "converged"
    /\ pt' = [pt EXCEPT !.PIii = Append(pt.PIii, data11(pt.q_perp, pt.st.integral)),
                        !.iq = pt.iq + 1, !.pc = "table"]
    /\ UNCHANGED <<lk, ov, cc, lo, nm>>

\* return PIii
TableReturn ==
    /\ pt.pc = "table"
    /\ pt.iq = Len(pt.Aijfg)
    /\ pt' = [pt EXCEPT !.pc = "returned"]
    /\ UNCHANGED <<lk, ov, cc, lo, nm>>

NextPI == EnterPI \/ StoreZero \/ PIPass \/ PIReturn \/ TableReturn

SpecPI == InitPI /\ [][NextPI]_vars

\* The program is one sequential thread: a step that can be taken is taken
FairSpecPI == InitPI /\ [][NextPI]_vars /\ WF_vars(NextPI)

\* C5: the loop of PI stops at the first pass whose increment dI*dmu is below
\* 1% of the running sum, and goes on as long as the increment exceeds 1% of it.
C5_StopsAtOnePercent ==
    pt.iters >= 1 =>
        /\ pt.pc = "body" => ~(pt.st.dI * 100 < pt.st.integral)
        /\ pt.pc = "converged" => ~(pt.st.dI * 100 > pt.st.integral)

\* C6: the loop of PI makes at least one pass and then reaches its exit.
C6_PITerminates ==
    /\ [](pt.pc = "converged" => pt.iters >= 1)
    /\ (pt.pc = "body") ~> (pt.pc = "converged")

\* C7: with screening off PI_table returns a table of zeros and never enters
\* PI; with screening on it enters PI once per table entry.
C7_ScreeningFlag ==
    /\ ~pt.S_flag => (pt.calls = 0 /\ pt.pc \in {"table", "returned", "off"})
    /\ pt.pc = "returned" =>
          /\ Len(pt.PIii) = Len(pt.Aijfg)
          /\ \A iq \in 1..Len(pt.PIii) : pt.PIii[iq].a = pt.Aijfg[iq].a
          /\ ~pt.S_flag => \A iq \in 1..Len(pt.PIii) : pt.PIii[iq].b = 0
          /\ pt.S_flag => pt.calls = Len(pt.Aijfg)

C7_Witness ==
    /\ pt.pc = "returned"
    /\ ~pt.S_flag
    /\ Len(pt.PIii) = MaxNq
    /\ \A iq \in 1..MaxNq : pt.PIii[iq] = data11(pt.Aijfg[iq].a, 0)

\* PI_table with screening on, run to its return
C7_WitnessScreened ==
    /\ pt.pc = "returned"
    /\ pt.S_flag
    /\ pt.calls = MaxNq
    /\ \E iq \in 1..MaxNq : pt.PIii[iq].b > 0

\* The loop of PI is stuck: a pass leaves mu and integral as they are and the
\* test sends it round again
Stuck ==
    /\ pt.pc = "body"
    /\ LET n == PI_body(pt.isb, pt.q_perp, pt.T, pt.st)
       IN  n.mu = pt.st.mu /\ n.integral = pt.st.integral /\ PI_continues(n)

\* C17 as stated: in a pass of PI the base term is reduced at exactly the
\* steps where q < 2k, and is the unreduced base term at every other step.
C17_ReducedBelowTwoK ==
    (pt.pc \in {"body", "converged"} /\ pt.iters >= 1) =>
        ((pt.q_perp < 2 * pt.st.ki) <=> (pt.st.P0 # P0base))

\* C17, amended: in a pass of PI the base term m/(pi hBar^2) is reduced by
\* m/(pi hBar^2)*sqrt(1 - (2k/q)^2) at exactly the steps where q > 2k, and
\* is the unreduced base term at every other step.
C17_ReducedAboveTwoK ==
    (pt.pc \in {"body", "converged"} /\ pt.iters >= 1) =>
        LET q == pt.q_perp
            k == pt.st.ki
        IN  /\ q > 2 * k => pt.st.P0 = P0base - ((P0base * ISqrt(q * q - 4 * k * k)) \div q)
            /\ q > 2 * k => pt.st.P0 < P0base
            /\ q <= 2 * k => pt.st.P0 = P0base

\* A pass at q > 2k reduced the base term; one at q < 2k left it alone
C17_Witness ==
    /\ pt.pc \in {"body", "converged"}
    /\ pt.iters >= 1
    /\ pt.q_perp > 2 * pt.st.ki
    /\ pt.st.P0 < P0base

C17_WitnessUnreduced ==
    /\ pt.pc = "body"
    /\ pt.iters >= 1
    /\ 0 < pt.q_perp
    /\ pt.q_perp < 2 * pt.st.ki
    /\ pt.st.P0 = P0base

(***************************************************************************)
(* The carrier-carrier kernel: the loop body of main for i j -> f g        *)
(***************************************************************************)
\* V.max(): above every subband minimum
Vmax == 3 * Pow(2, MantDig - 1)

\* The ground state has its minimum at the origin of energy.
\* The wave functions of the two states on the grid of nz points: each spans
\* two points, and the two overlap in one
KernelPsi(s, nz) == [iz \in 1..nz |-> IF iz = s \/ iz = s + 1 THEN 1 ELSE 0]

KernelSubbands(E1, E2) ==
    LET z == [iz \in 1..MaxNz |-> iz - 1]
    IN  [s \in SubbandIds |->
            Subband(z, KernelPsi(s, MaxNz), IF s = 1 THEN E1 ELSE E2, IF s = 1 THEN E1 ELSE E2, 1)]

\* What an entry outside a table may hold: a q below every tabulated one,
\* one above every tabulated one, or no number at all
KernelHeap == {data11(0, 0), data11(4 * Vmax, 0), data11(NaNq, 0)}

\* The memory around a table as a read outside the block finds it
WithHeap(mem, g) == Memory(g, mem.tab, [n \in 1..HeapCells |-> g])

\* Whether a lookup of q_perp leaves the block of the table
LeavesBlock(mem, q_perp) ==
    LET m0 == WithHeap(mem, data11(0, 0))
    IN  ~QGt(q_perp, Cell(m0, Len(mem.tab) - 1).a) /\ ReadsOutside(m0, LookupUnchecked(m0, q_perp))

\* A third state just below the top of the well
KernelIds == SubbandIds \cup {Cardinality(SubbandIds) + 1}

KernelStates(E2) ==
    LET z == [iz \in 1..MaxNz |-> iz - 1]
        E == [s \in KernelIds |-> IF s = 1 THEN 0 ELSE IF s = 2 THEN E2 ELSE Vmax - 4]
    IN  [s \in KernelIds |-> Subband(z, KernelPsi(s, MaxNz), E[s], E[s], 1)]

\* Transitions between the two lower states, and two that reach the third
KernelTransitions == Transitions \cup {<<1, 3, 2, 2>>, <<1, 3, 3, 3>>}

\* cc.sb, cc.vmax, cc.T, cc.S_flag, cc.ff_flag: the inputs of main; cc.list:
\* the transitions of rr.r; cc.fault: the resource the system refuses
\* ("none" | "alloc" | "open" | "ffopen"); cc.itx: the loop index of main;
\* cc.tx, cc.isb .. cc.gsb, cc.Deltak0sqr, cc.Aijfg, cc.PIii, cc.Wijfg, cc.Wbar,
\* cc.iki .. cc.itheta: the locals of the loop body; cc.Fcc, cc.FccState: the
\* lines written to the rate-curve file and its stream ("closed" | "open" |
\* "null"); cc.FccABCD, cc.ABCDState: the same of ccABCD.r; cc.disk: the
\* rate-curve files closed so far; cc.Afiles: the files output_ff wrote;
\* cc.live: the tables and streams of the loop body not yet released;
\* cc.err, cc.stderr, cc.status: the resource error met, the diagnostic
\* stream, the exit status; cc.pc: "start" | "tables" | "loop" | "endki" |
\* "endtx" | "finish" | "done", or "fatal" | "exit" | "crash" | "hang"
InitCC ==
    /\ \E E2 \in Energies, tx \in KernelTransitions, T \in Temperatures, S_flag \in BOOLEAN :
           /\ 0 < E2
           /\ cc = [ParkedCC EXCEPT !.vmax = Vmax, !.sb = KernelStates(E2), !.list = <<tx>>,
                                    !.T = T, !.S_flag = S_flag, !.ABCDState = "open",
                                    !.pc = "start"]
    /\ lk = ParkedLookup
    /\ ov = ParkedOverlap
    /\ pt = ParkedPI
    /\ lo = ParkedLO
    /\ nm = ParkedNames

ValidIndex(sb, n) == n \in 1..Len(sb)

\* subbands[n-1]: the element, or for an index off the vector whatever the
\* memory there holds
Resolve(sb, n) == IF ValidIndex(sb, n) THEN {sb[n]} ELSE {sb[s] : s \in 1..Len(sb)}

\* The head of the loop body: i, j, f, g of the transition, the copies of the
\* four subbands, output_ff if asked for, and the rate-curve file opened
OpenTransition ==
    /\ cc.pc = "start"
    /\ LET tx == cc.list[cc.itx + 1]
           valid == \A n \in 1..4 : ValidIndex(cc.sb, tx[n])
       IN  \E isb \in Resolve(cc.sb, tx[1]), jsb \in Resolve(cc.sb, tx[2]),
              fsb \in Resolve(cc.sb, tx[3]), gsb \in Resolve(cc.sb, tx[4]),
              crashes \in BOOLEAN :
               /\ crashes => ~valid
               /\ cc' = IF crashes
                        THEN [cc EXCEPT !.tx = tx, !.status = 139, !.pc = "crash"]
                        ELSE IF cc.ff_flag /\ cc.fault = "ffopen"
                        THEN [cc EXCEPT !.tx = tx, !.isb = isb, !.jsb = jsb, !.fsb = fsb,
                                        !.gsb = gsb, !.err = "ffopen",
                                        !.stderr = Append(cc.stderr, "Error: Cannot open input file"),
                                        !.status = 0, !.pc = "exit"]
                        ELSE [cc EXCEPT !.tx = tx, !.isb = isb, !.jsb = jsb, !.fsb = fsb,
                                        !.gsb = gsb,
                                        !.Afiles = IF cc.ff_flag THEN Append(cc.Afiles, tx)
                                                   ELSE cc.Afiles,
                                        !.Fcc = <<>>,
                                        !.FccState = IF cc.fault = "open" THEN "null" ELSE "open",
                                        !.live = IF cc.fault = "open" THEN cc.live
                                                 ELSE cc.live \cup {<<"Fcc", cc.itx>>},
                                        !.pc = "tables"]
    /\ UNCHANGED <<lk, ov, pt, lo, nm>>

\* Deltak0sqr, Aijfg = ff_table(...), PIii = PI_table(...), Wbar = 0
BuildTables ==
    /\ cc.pc = "tables"
    /\ LET D == Deltak0sqr_of(cc.tx, cc.isb.E, cc.jsb.E, cc.fsb.E, cc.gsb.E)
           ff == ff_table(D, cc.isb, cc.jsb, cc.fsb, cc.gsb, cc.vmax, MaxNq)
           blocks == {<<"Aijfg", cc.itx>>, <<"PIii", cc.itx>>}
       IN  IF cc.fault = "alloc"
           THEN cc' = [cc EXCEPT !.Deltak0sqr = D, !.err = "alloc",
                                 !.stderr = Append(cc.stderr, "Cannot allocate memory!"),
                                 !.status = 0, !.pc = "exit"]
           ELSE IF PI_table_hangs(ff, cc.isb, cc.T, MaxNq, cc.S_flag)
           THEN cc' = [cc EXCEPT !.Deltak0sqr = D, !.Aijfg = Memory(data11(0, 0), ff, <<>>),
                                 !.live = cc.live \cup {<<"Aijfg", cc.itx>>}, !.pc = "hang"]
           ELSE cc' = [cc EXCEPT !.Deltak0sqr = D,
                                 !.Aijfg = Memory(data11(0, 0), ff, <<>>),
                                 !.PIii = Memory(data11(0, 0),
                                                 PI_table(ff, cc.isb, cc.T, MaxNq, cc.S_flag), <<>>),
                                 !.live = cc.live \cup blocks,
                                 !.Wbar = Num(0), !.Wijfg = Num(0),
                                 !.iki = 0, !.ikj = 0, !.ialpha = 0, !.itheta = 0,
                                 !.pc = "loop"]
    /\ UNCHANGED <<lk, ov, pt, lo, nm>>

\* q_perpsqr4 of the sample the loops stand at
CurrentQ4(c) == q_perpsqr4_of(SampleK(c).kij, c.Deltak0sqr, QuarterTurnCos[c.itheta + 1])

\* The body of the theta loop at the sample the loops stand at
Sample ==
    /\ cc.pc = "loop"
    /\ LET k == SampleK(cc)
           q_perpsqr4 == CurrentQ4(cc)
           nq == Len(cc.Aijfg.tab)
       IN  IF ~RealQPerp(q_perpsqr4)
           THEN cc' = [NextIndices(cc) EXCEPT !.nskip = cc.nskip + 1]
           ELSE LET q_perp == ISqrt(q_perpsqr4.v) \div 2
                IN  \E g \in (IF LeavesBlock(cc.Aijfg, q_perp) THEN KernelHeap
                              ELSE {data11(0, 0)}) :
                      LET ff == lookup_ff(WithHeap(cc.Aijfg, g), q_perp, nq)
                          PIv == lookup_PI(WithHeap(cc.PIii, g), q_perp, nq)
                          P == f_FD_k(cc.jsb, k.kj, cc.T)
                          term == IF ff.kind = "value" /\ PIv.kind = "value"
                                  THEN SampleTerm(ff.val, PIv.val, q_perp, P, k.kj)
                                  ELSE NaN
                      IN  IF ff.kind = "fatal" \/ PIv.kind = "fatal"
                          THEN cc' = [cc EXCEPT !.lookups = cc.lookups + 1, !.status = 0,
                                                !.pc = "fatal"]
                          ELSE IF ff.kind = "segv" \/ PIv.kind = "segv"
                          THEN cc' = [cc EXCEPT !.lookups = cc.lookups + 1, !.status = 139,
                                                !.pc = "crash"]
                          ELSE cc' = [NextIndices(cc) EXCEPT !.Wijfg = FPlus(cc.Wijfg, term),
                                                             !.lookups = cc.lookups + 3]
    /\ UNCHANGED <<lk, ov, pt, lo, nm>>

\* After the kj loop: the step lengths, the line of Fcc, the term of Wbar.
\* fprintf on a null stream faults or is lost.
EndKi ==
    /\ cc.pc = "endki"
    /\ LET k == SampleK(cc)
           W == FTimes(cc.Wijfg, Num(k.dkj))
           weighted == FScale(W, k.ki * f_FD_k(cc.isb, k.ki, cc.T), OccUnit)
       IN  \E crashes \in BOOLEAN :
               /\ crashes => cc.FccState = "null"
               /\ cc' = IF crashes THEN [cc EXCEPT !.status = 139, !.pc = "crash"]
                        ELSE [cc EXCEPT !.Fcc = IF cc.FccState = "open" THEN Append(cc.Fcc, W)
                                                ELSE cc.Fcc,
                                        !.Wbar = FPlus(cc.Wbar, weighted),
                                        !.Wijfg = Num(0), !.lookups = 0, !.nskip = 0,
                                        !.iki = IF cc.iki + 1 < nki THEN cc.iki + 1 ELSE cc.iki,
                                        !.pc = IF cc.iki + 1 < nki THEN "loop" ELSE "endtx"]
    /\ UNCHANGED <<lk, ov, pt, lo, nm>>

\* The rate-curve files on disk once the file of name tx is closed
Closed(disk, name, lines) ==
    Append(SelectSeq(disk, LAMBDA file : file.name # name), [name |-> name, lines |-> lines])

\* Wbar *= dki/(pi*pop), the line of ccABCD.r, the rate-curve file closed,
\* the tables freed, and on to the next transition
EndTransition ==
    /\ cc.pc = "endtx"
    /\ LET Wbar == FTimes(cc.Wbar, Num(SampleK(cc).dki))
           more == cc.itx + 1 < Len(cc.list)
       IN  \E crashes \in BOOLEAN :
               /\ crashes => (cc.FccState = "null" \/ cc.ABCDState = "null")
               /\ cc' = IF crashes THEN [cc EXCEPT !.Wbar = Wbar, !.status = 139, !.pc = "crash"]
                        ELSE [cc EXCEPT !.Wbar = Wbar,
                                        !.FccABCD = IF cc.ABCDState = "open"
                                                    THEN Append(cc.FccABCD, [tx |-> cc.tx, Wbar |-> Wbar])
                                                    ELSE cc.FccABCD,
                                        !.disk = IF cc.FccState = "open"
                                                 THEN Closed(cc.disk, FileName(cc.tx), cc.Fcc) ELSE cc.disk,
                                        !.FccState = "closed",
                                        !.Aijfg = NoTable, !.PIii = NoTable,
                                        !.live = cc.live \ {<<"Fcc", cc.itx>>, <<"Aijfg", cc.itx>>,
                                                            <<"PIii", cc.itx>>},
                                        !.itx = cc.itx + 1,
                                        !.pc = IF more THEN "start" ELSE "finish"]
    /\ UNCHANGED <<lk, ov, pt, lo, nm>>

\* fclose(FccABCD); return EXIT_SUCCESS;
Finish ==
    /\ cc.pc = "finish"
    /\ \E crashes \in BOOLEAN :
           /\ crashes => cc.ABCDState = "null"
           /\ cc' = IF crashes THEN [cc EXCEPT !.status = 139, !.pc = "crash"]
                    ELSE [cc EXCEPT !.ABCDState = "closed", !.status = 0, !.pc = "done"]
    /\ UNCHANGED <<lk, ov, pt, lo, nm>>

NextCC == OpenTransition \/ BuildTables \/ Sample \/ EndKi \/ EndTransition \/ Finish

SpecCC == InitCC /\ [][NextCC]_vars

\* The largest q_perp of the table of form factors
TableLastQ == cc.Aijfg.tab[Len(cc.Aijfg.tab)].a

\* C3: every q_perp the quadrature looks up lies within the table ff_table
\* built for the transition, so that the range error of the lookups never
\* ends a run.
C3_SamplesWithinTable == cc.pc # "fatal"

\* The sample the loops stand at has no real q_perp: the test q_perpsqr4 >= 0 fails
Imaginary(c) == LET q4 == CurrentQ4(c) IN q4.kind # "num" \/ q4.v < 0

\* C8: a sample with negative 4*q_perp^2 adds nothing to Wijfg, looks up no
\* table, raises no error, and the loops go on to the next sample.
C8_ImaginarySampleSkipped ==
    [][(cc.pc = "loop" /\ Imaginary(cc)) =>
          /\ cc'.Wijfg = cc.Wijfg
          /\ cc'.lookups = cc.lookups
          /\ cc'.pc \in {"loop", "endki"}
          /\ cc' = [NextIndices(cc) EXCEPT !.nskip = cc.nskip + 1]]_vars

\* A sample was skipped as the first of its ki: nothing was looked up and
\* nothing was added
C8_Witness ==
    /\ cc.pc = "loop"
    /\ cc.nskip > 0
    /\ cc.lookups = 0
    /\ cc.Wijfg = Num(0)

\* The tables of the transition are built and not yet freed
TablesBuilt == cc.pc \in {"loop", "endki", "endtx"}

\* q values from 0 upwards in equal steps, each above the one before
UniformFromZero(tab) ==
    /\ tab[1].a = 0
    /\ \A k \in 1..(Len(tab) - 1) :
           /\ QGt(tab[k + 1].a, tab[k].a)
           /\ tab[k + 1].a - tab[k].a = tab[2].a - tab[1].a

\* C16: every table of form factors has exactly nq entries whose q values
\* start at 0, are uniformly spaced and strictly increasing, and the
\* screening table holds the same q at every index.
C16_TablesUniform ==
    TablesBuilt =>
        /\ Len(cc.Aijfg.tab) = MaxNq
        /\ Len(cc.PIii.tab) = MaxNq
        /\ UniformFromZero(cc.Aijfg.tab)
        /\ \A k \in 1..MaxNq : cc.PIii.tab[k].a = cc.Aijfg.tab[k].a

\* What ff_table and PI_table do deliver: nq entries each; the q grid of the
\* claim when q_perp_max is a number, and nq entries with no number for q
\* when it is not
C16_TablesUniformOrNaN ==
    TablesBuilt =>
        /\ Len(cc.Aijfg.tab) = MaxNq
        /\ Len(cc.PIii.tab) = MaxNq
        /\ \/ UniformFromZero(cc.Aijfg.tab)
           \/ \A k \in 1..MaxNq : IsNaNq(cc.Aijfg.tab[k].a)
        /\ \A k \in 1..MaxNq : cc.PIii.tab[k].a = cc.Aijfg.tab[k].a

\* C18: Deltak0sqr is zero when i + j = f + g, and 4m(Ei+Ej-Ef-Eg)/hBar^2
\* otherwise (2(Ei+Ej-Ef-Eg) in units with 2m/hBar^2 = 1).
C18_Deltak0sqr ==
    cc.pc \in {"loop", "endki", "endtx", "hang", "fatal"} =>
        LET tx == cc.tx
            Esum == cc.sb[tx[1]].E + cc.sb[tx[2]].E - cc.sb[tx[3]].E - cc.sb[tx[4]].E
        IN  /\ tx[1] + tx[2] = tx[3] + tx[4] => cc.Deltak0sqr = 0
            /\ tx[1] + tx[2] # tx[3] + tx[4] => cc.Deltak0sqr = 2 * Esum

\* A transition whose indices balance and whose energies do not: Deltak0sqr is 0
C18_Witness ==
    /\ cc.pc = "loop"
    /\ cc.tx[1] + cc.tx[2] = cc.tx[3] + cc.tx[4]
    /\ cc.sb[cc.tx[1]].E + cc.sb[cc.tx[2]].E # cc.sb[cc.tx[3]].E + cc.sb[cc.tx[4]].E
    /\ cc.Deltak0sqr = 0

\* A transition whose indices do not balance: Deltak0sqr is not 0
C18_WitnessChange ==
    /\ cc.pc = "loop"
    /\ cc.tx[1] + cc.tx[2] # cc.tx[3] + cc.tx[4]
    /\ cc.Deltak0sqr < 0

\* q_perp of the sample the loops stand at (a real one)
CurrentQ(c) == ISqrt(CurrentQ4(c).v) \div 2

\* The sample the loops stand at is one the next pass accumulates: q_perp is
\* real and both lookups interpolate within the table
Accumulates(c) ==
    /\ c.pc = "loop"
    /\ ~Imaginary(c)
    /\ ~IsNaNq(c.Aijfg.tab[1].a)
    /\ CurrentQ(c) < c.Aijfg.tab[Len(c.Aijfg.tab)].a

\* The divisor of the term of the sample the loops stand at
CurrentDivisor(c) ==
    LET q_perp == CurrentQ(c)
        nq == Len(c.Aijfg.tab)
    IN  ScreenedQ(lookup_ff(c.Aijfg, q_perp, nq).val, lookup_PI(c.PIii, q_perp, nq).val, q_perp)

\* C21: for every sample the kernel accumulates, q_perp = 0, runs without
\* screening and a zero form factor included, the divisor
\* q_perp + coupling*PI(q_perp)*A(q_perp) is not zero.
C21_DivisorNonZero == Accumulates(cc) => CurrentDivisor(cc) # 0

\* What the term does deliver: without screening the divisor is q_perp itself,
\* zero exactly at q_perp = 0
C21_UnscreenedDivisorIsQ ==
    (Accumulates(cc) /\ ~cc.S_flag) => CurrentDivisor(cc) = FFUnit * CurrentQ(cc)

(***************************************************************************)
(* The driver: main of srcc.cpp over a list of transitions, with indices   *)
(* off the subbands and resources the system may refuse                    *)
(***************************************************************************)
\* Transitions of rr.r: one that completes, one whose last sample sits on the
\* last tabulated q, one that runs into the range error of the lookups, and
\* two with an index that names no subband (0, and one past the last)
DriverTransitions ==
    {<<1, 1, 2, 2>>, <<1, 2, 1, 1>>, <<2, 2, 1, 1>>, <<0, 1, 1, 1>>,
     <<1, Cardinality(KernelIds) + 1, 1, 1>>}

DriverLists ==
    {<<t>> : t \in DriverTransitions} \cup {<<t, u>> : t \in DriverTransitions, u \in DriverTransitions}

Faults == {"none", "alloc", "open", "ffopen"}

InitDriver ==
    /\ \E list \in DriverLists, fault \in Faults, ff_flag \in BOOLEAN :
           /\ fault = "ffopen" => ff_flag
           /\ fault \in {"alloc", "open"} => ~ff_flag
           /\ cc = [ParkedCC EXCEPT !.vmax = Vmax, !.sb = KernelStates(Pow(2, MantDig - 1)),
                                    !.list = list, !.fault = fault, !.ff_flag = ff_flag,
                                    !.ABCDState = IF fault = "open" THEN "null" ELSE "open",
                                    !.pc = "start"]
    /\ lk = ParkedLookup
    /\ ov = ParkedOverlap
    /\ pt = ParkedPI
    /\ lo = ParkedLO
    /\ nm = ParkedNames

SpecDriver == InitDriver /\ [][NextCC]_vars

ValidTransition(sb, tx) == \A n \in 1..4 : ValidIndex(sb, tx[n])

\* No index of rr.r is off the subbands and no resource is refused
SoundRun ==
    /\ cc.fault = "none"
    /\ \A k \in 1..Len(cc.list) : ValidTransition(cc.sb, cc.list[k])

\* The process is gone
Ended == cc.pc \in {"done", "fatal", "exit", "crash"}

\* The rate-curve file of the transition tx is on disk with nki lines
CurveOnDisk(tx) ==
    \E n \in 1..Len(cc.disk) : cc.disk[n].name = FileName(tx) /\ Len(cc.disk[n].lines) = nki

\* C11: the driver processes the n transitions of the list in list order:
\* a run leaves exactly n averaged-rate records, the k-th carrying the indices
\* of the k-th transition, and one rate-curve file per transition with one
\* line per sample of the initial wave vector.
C11_EveryTransitionRecorded ==
    (Ended /\ SoundRun) =>
        /\ Len(cc.FccABCD) = Len(cc.list)
        /\ \A k \in 1..Len(cc.list) :
               /\ cc.FccABCD[k].tx = cc.list[k]
               /\ CurveOnDisk(cc.list[k])

\* What the loop does deliver: the records written so far are those of the
\* first itx transitions, in order, each with its file of nki lines; a run
\* that returns from main has them all
C11_RecordsInOrder ==
    SoundRun =>
        /\ Len(cc.FccABCD) = cc.itx
        /\ \A k \in 1..Len(cc.FccABCD) :
               /\ cc.FccABCD[k].tx = cc.list[k]
               /\ CurveOnDisk(cc.list[k])
        /\ cc.pc = "done" => cc.itx = Len(cc.list)

\* C12: no index that names no subband (0, or above the number of subbands)
\* reaches subbands[index-1]; the run is aborted instead.
C12_IndicesChecked ==
    (cc.pc # "start" /\ cc.tx # <<>> /\ ~ValidTransition(cc.sb, cc.tx)) =>
        (cc.pc = "exit" /\ cc.status # 0)

\* What the loop does deliver: an index that names a subband resolves to it
C12_ValidIndicesResolve ==
    (cc.pc \in {"tables", "loop", "endki", "endtx"} /\ ValidTransition(cc.sb, cc.tx)) =>
        /\ cc.isb = cc.sb[cc.tx[1]]
        /\ cc.jsb = cc.sb[cc.tx[2]]
        /\ cc.fsb = cc.sb[cc.tx[3]]
        /\ cc.gsb = cc.sb[cc.tx[4]]

\* C13: a resource error (the table of form factors not allocated, an
\* output file not opened) is reported on the diagnostic stream and ends the
\* process with a non-zero exit status; nothing is computed after it.
C13_ResourceErrorAborts ==
    (cc.err # "none" \/ cc.FccState = "null") =>
        /\ cc.pc = "exit"
        /\ cc.stderr # <<>>
        /\ cc.status # 0

\* What the code does deliver: a failed allocation and a failed open in
\* output_ff are reported and end the process, with exit status 0
C13_ReportedWithStatusZero ==
    cc.err # "none" =>
        /\ cc.pc = "exit"
        /\ cc.stderr # <<>>
        /\ cc.status = 0

\* C14: the averaged rate of a transition depends on its indices and the
\* shared inputs only: two records of the same transition in one run carry
\* the same rate, whatever was processed before them.
C14_SameTransitionSameRate ==
    SoundRun =>
        \A j \in 1..Len(cc.FccABCD), k \in 1..Len(cc.FccABCD) :
            cc.FccABCD[j].tx = cc.FccABCD[k].tx => cc.FccABCD[j].Wbar = cc.FccABCD[k].Wbar

\* What the loop does deliver: every transition starts from fresh accumulators,
\* with no table and no rate-curve file of an earlier one
C14_FreshPerTransition ==
    /\ cc.pc = "start" => (cc.Aijfg = NoTable /\ cc.PIii = NoTable /\ cc.live = {})
    /\ (cc.pc = "loop" /\ cc.iki = 0 /\ cc.ikj = 0 /\ cc.ialpha = 0 /\ cc.itheta = 0) =>
           (cc.Wbar = Num(0) /\ cc.Wijfg = Num(0) /\ cc.Fcc = <<>>)

\* C15: the rate-curve file of a transition is open while the transition is
\* computed and its lines are written, and closed before the next begins;
\* the tables are released before the next are built; the streams and tables
\* of two transitions are never live together.
C15_OneTransitionLive ==
    /\ cc.pc \in {"tables", "loop", "endki", "endtx"} => cc.FccState = "open"
    /\ cc.pc \in {"start", "finish", "done"} =>
           (cc.FccState = "closed" /\ cc.Aijfg = NoTable /\ cc.PIii = NoTable)
    /\ \A r \in cc.live : r[2] = cc.itx

\* What the loop does deliver when every fopen succeeds
C15_OneTransitionLiveIfOpened ==
    cc.fault # "open" =>
        /\ cc.pc \in {"tables", "loop", "endki", "endtx"} => cc.FccState = "open"
        /\ cc.pc \in {"start", "finish", "done"} =>
               (cc.FccState = "closed" /\ cc.Aijfg = NoTable /\ cc.PIii = NoTable)
        /\ \A r \in cc.live : r[2] = cc.itx

(***************************************************************************)
(* The names of the rate-curve files of a run over two transitions of a    *)
(* structure with more than nine subbands                                  *)
(***************************************************************************)
\* Indices of one and of two digits
NameIndices == {1, 9, 11}

NameTransitions == [1..4 -> NameIndices]

InitNames ==
    /\ \E t \in NameTransitions, u \in NameTransitions :
           /\ t # u
           /\ nm = [ParkedNames EXCEPT !.list = <<t, u>>, !.pc = "sprintf"]
    /\ lk = ParkedLookup
    /\ ov = ParkedOverlap
    /\ pt = ParkedPI
    /\ cc = ParkedCC
    /\ lo = ParkedLO

\* sprintf(filename,"cc%i%i%i%i.r",i,j,f,g): the buffer holds what fits of the
\* name, the rest lands behind it
Sprintf ==
    /\ nm.pc = "sprintf"
    /\ LET tx == nm.list[nm.itx + 1]
       IN  nm' = [nm EXCEPT !.filename = SubSeq(FileName(tx), 1, Min2(Len(FileName(tx)), BufferSize)),
                            !.written = BytesWritten(tx), !.pc = "fopen"]
    /\ UNCHANGED <<lk, ov, pt, cc, lo>>

\* Fcc=fopen(filename,"w"), and the loop goes on to the next transition.
\* After a write behind the buffer the run may fault instead.
Fopen ==
    /\ nm.pc = "fopen"
    /\ \E crashes \in BOOLEAN :
           /\ crashes => nm.written > BufferSize
           /\ nm' = IF crashes THEN [nm EXCEPT !.pc = "crash"]
                    ELSE [nm EXCEPT !.opened = Append(nm.opened, FileName(nm.list[nm.itx + 1])),
                                    !.itx = nm.itx + 1,
                                    !.pc = IF nm.itx + 1 < Len(nm.list) THEN "sprintf" ELSE "done"]
    /\ UNCHANGED <<lk, ov, pt, cc, lo>>

NextNames == Sprintf \/ Fopen

SpecNames == InitNames /\ [][NextNames]_vars

\* C22: two distinct transitions of a run are never written to the same
\* rate-curve file name, and the name of a transition with its terminator
\* fits the 9 characters of the buffer.
C22_NamesDistinctAndFit ==
    /\ nm.pc \in {"fopen", "crash"} => nm.written <= BufferSize
    /\ \A j \in 1..Len(nm.opened), k \in 1..Len(nm.opened) :
           nm.list[j] # nm.list[k] => nm.opened[j] # nm.opened[k]

\* What the names do deliver: with indices of one digit each the name fills
\* the buffer exactly and tells the transitions apart
C22_OneDigitNames ==
    (\A k \in 1..Len(nm.list) : \A n \in 1..4 : nm.list[k][n] < 10) =>
        /\ nm.pc = "fopen" => (nm.written = BufferSize /\ nm.filename = FileName(nm.list[nm.itx + 1]))
        /\ \A j \in 1..Len(nm.opened), k \in 1..Len(nm.opened) :
               nm.list[j] # nm.list[k] => nm.opened[j] # nm.opened[k]

(***************************************************************************)
(* The phonon kernel of one transition i -> f                              *)
(***************************************************************************)
MaxELO == 3         \* largest subband minimum
MaxPhonon == 4      \* largest phonon energy

\* Carrier temperatures whose 5kT range spans the ki grid
LOTemperatures == {Pow(2, n + 1) : n \in 1..MaxT}

\* Cutoff energies a user gives
Cutoffs == {n * n : n \in 1..(nki + 1)}

InitLO ==
    /\ \E E1 \in 0..MaxELO, E2 \in 0..MaxELO, i \in SubbandIds, f \in SubbandIds,
          Ephonon \in 1..MaxPhonon, Te \in LOTemperatures, b_flag \in BOOLEAN,
          S_flag \in BOOLEAN, given \in BOOLEAN, value \in Cutoffs :
           /\ E1 < E2
           /\ ~given => value = nki * nki
           /\ lo = [ParkedLO EXCEPT !.sb = KernelSubbands(E1, E2), !.i = i, !.f = f,
                                    !.Ephonon = Ephonon, !.N0 = 1, !.Te = Te,
                                    !.b_flag = b_flag, !.S_flag = S_flag, !.given = given,
                                    !.value = value, !.pc = "start"]
    /\ lk = ParkedLookup
    /\ ov = ParkedOverlap
    /\ pt = ParkedPI
    /\ cc = ParkedCC
    /\ nm = ParkedNames

\* lambda_s_sq, the cutoff and kimax, the table of form factors
SetRange ==
    /\ lo.pc = "start"
    /\ LET isb == lo.sb[lo.i]
           fsb == lo.sb[lo.f]
           Ecutoff == Ecutoff_of(lo.given, lo.value, isb, fsb, lo.Ephonon, lo.Te)
           t == ff_table_LO(isb, fsb)
       IN  lo' = [lo EXCEPT !.lambda_s_sq = lambda_s_sq_of(lo.sb, lo.S_flag, lo.Te),
                            !.Ecutoff = Ecutoff, !.kimax = k_of_E(Ecutoff),
                            !.Kz = t.Kz, !.Gifsqr = t.Gifsqr, !.iki = 0, !.pc = "loop"]
    /\ UNCHANGED <<lk, ov, pt, cc, nm>>

\* Delta_a = Ef - Ei - Ephonon and Delta_e = Ef - Ei + Ephonon
Delta_a_of(c) == c.sb[c.f].E - c.sb[c.i].E - c.Ephonon

Delta_e_of(c) == c.sb[c.f].E - c.sb[c.i].E + c.Ephonon

\* ki = dki*iki with dki = kimax/nki
ki_of(c, iki) == (c.kimax \div nki) * iki

\* One pass of the loop over ki: both rates of the sample
KiSample ==
    /\ lo.pc = "loop"
    /\ LET ki == ki_of(lo, lo.iki)
           isb == lo.sb[lo.i]
           fsb == lo.sb[lo.f]
           Eki == Ek(ki)
           Ef_em == Eki - Delta_e_of(lo)
           Ef_ab == Eki - Delta_a_of(lo)
           Wa == Blocked(lo.b_flag, Gated(UngatedRate(lo, ki, Delta_a_of(lo), lo.N0), Ef_ab),
                         Ef_ab, fsb, lo.Te)
           We == Blocked(lo.b_flag, Gated(UngatedRate(lo, ki, Delta_e_of(lo), lo.N0 + 1), Ef_em),
                         Ef_em, fsb, lo.Te)
           weight == Num(ki * f_FD_k(isb, ki, lo.Te))
       IN  lo' = [lo EXCEPT !.Waif = Append(lo.Waif, Wa), !.Weif = Append(lo.Weif, We),
                            !.Wabar_integrand_ki = Append(lo.Wabar_integrand_ki, FTimes(Wa, weight)),
                            !.Webar_integrand_ki = Append(lo.Webar_integrand_ki, FTimes(We, weight)),
                            !.iki = lo.iki + 1,
                            !.pc = IF lo.iki + 1 < nki THEN "loop" ELSE "end"]
    /\ UNCHANGED <<lk, ov, pt, cc, nm>>

\* Wabar[itx] and Webar[itx]: integral(..., dki)/(pi*pop); the files closed
EndLO ==
    /\ lo.pc = "end"
    /\ lo' = [lo EXCEPT !.Wabar = Fintegral(lo.Wabar_integrand_ki, lo.kimax \div nki),
                        !.Webar = Fintegral(lo.Webar_integrand_ki, lo.kimax \div nki),
                        !.pc = "done"]
    /\ UNCHANGED <<lk, ov, pt, cc, nm>>

NextLO == SetRange \/ KiSample \/ EndLO

SpecLO == InitLO /\ [][NextLO]_vars

\* The final kinetic energies of the sample recorded at line n
Ef_em_at(n) == Ek(ki_of(lo, n - 1)) - Delta_e_of(lo)

Ef_ab_at(n) == Ek(ki_of(lo, n - 1)) - Delta_a_of(lo)

\* C9: at a sample whose final kinetic energy is negative the rate recorded
\* for that mechanism is exactly zero, with or without blocking.
C9_ForbiddenRateIsZero ==
    \A n \in 1..Len(lo.Weif) :
        /\ Ef_em_at(n) < 0 => lo.Weif[n] = Num(0)
        /\ Ef_ab_at(n) < 0 => lo.Waif[n] = Num(0)

\* The gated rate of line n before any blocking, from the inputs of the run
GatedRate_e(n) == Gated(UngatedRate(lo, ki_of(lo, n - 1), Delta_e_of(lo), lo.N0 + 1), Ef_em_at(n))

GatedRate_a(n) == Gated(UngatedRate(lo, ki_of(lo, n - 1), Delta_a_of(lo), lo.N0), Ef_ab_at(n))

\* The gated rate times (1 - occupation of the final state), once
TimesVacancy(W, Ef_kin) ==
    FScale(W, OccUnit - f_FD_k(lo.sb[lo.f], ISqrt(Ef_kin), lo.Te), OccUnit)

\* C10: without blocking the recorded rates are the gated rates; with
\* blocking a rate is the gated rate times (1 - occupation of the final
\* state), once, where the final kinetic energy is non-negative, and the
\* gated rate elsewhere.
C10_BlockingOnlyWhenEnabled ==
    \A n \in 1..Len(lo.Weif) :
        /\ ~lo.b_flag => lo.Weif[n] = GatedRate_e(n) /\ lo.Waif[n] = GatedRate_a(n)
        /\ lo.b_flag =>
            /\ lo.Weif[n] = IF Ef_em_at(n) >= 0 THEN TimesVacancy(GatedRate_e(n), Ef_em_at(n))
                            ELSE GatedRate_e(n)
            /\ lo.Waif[n] = IF Ef_ab_at(n) >= 0 THEN TimesVacancy(GatedRate_a(n), Ef_ab_at(n))
                            ELSE GatedRate_a(n)

\* With blocking, a recorded emission rate lies strictly between zero and
\* its gated rate
C10_Witness ==
    /\ lo.b_flag
    /\ \E n \in 1..Len(lo.Weif) :
           /\ Ef_em_at(n) >= 0
           /\ lo.Weif[n].kind = "num" /\ GatedRate_e(n).kind = "num"
           /\ 0 < lo.Weif[n].v /\ lo.Weif[n].v < GatedRate_e(n).v

\* Without blocking, a recorded rate is positive where the final state is
\* partly occupied
C10_WitnessUnblocked ==
    /\ ~lo.b_flag
    /\ \E n \in 1..Len(lo.Weif) :
           /\ Ef_em_at(n) >= 0
           /\ f_FD_k(lo.sb[lo.f], ISqrt(Ef_em_at(n)), lo.Te) > 0
           /\ lo.Weif[n].kind = "num" /\ lo.Weif[n].v > 0

\* C19: a cutoff the user gives is extended exactly when
\* Ecutoff + Ei - Ephonon < Ef and is left alone otherwise, and after the
\* cutoff step, user or default, Ecutoff + Ei - Ephonon >= Ef.
C19_CutoffPermitsScattering ==
    lo.pc \in {"loop", "end", "done"} =>
        LET Ei == lo.sb[lo.i].E
            Ef == lo.sb[lo.f].E
        IN  /\ lo.given =>
                   lo.Ecutoff = (IF lo.value + Ei - lo.Ephonon < Ef
                                 THEN lo.value + Ef ELSE lo.value)
            /\ lo.Ecutoff + Ei - lo.Ephonon >= Ef

\* What the cutoff step does deliver: the user's cutoff grows by Ef under the
\* test of the claim, and the default cutoff reaches the final subband
C19_CutoffStep ==
    lo.pc \in {"loop", "end", "done"} =>
        LET Ei == lo.sb[lo.i].E
            Ef == lo.sb[lo.f].E
        IN  /\ lo.given =>
                   lo.Ecutoff = (IF lo.value + Ei - lo.Ephonon < Ef
                                 THEN lo.value + Ef ELSE lo.value)
            /\ ~lo.given => lo.Ecutoff + Ei >= Ef

====
